---- MODULE Spec2Model ----
(***************************************************************************)
(* A model of tinyboot.py, the two-pass interpreter of the first bootstrap *)
(* stage: tbfcompile scans the program text once and builds the data       *)
(* space and the run-time dispatch table, tbfrun then interprets the same  *)
(* text from the start address.                                            *)
(*                                                                         *)
(* The program text is a sequence of one-character strings, indexed from 0 *)
(* by At.  Python integers are unbounded; a number is modelled by its     *)
(* little-endian sequence of base-256 digits without leading zero digits   *)
(* (<<>> is 0), so that values of 32 bits and more keep their exact value. *)
(***************************************************************************)
EXTENDS Integers, Sequences, FiniteSets, TLC

VARIABLES
    program,            \* the program text, read by main (line 160)
    program_counter,    \* the cursor, shared by both passes (line 28)
    start_address,      \* None until '^' is compiled (line 19)
    memory,             \* the data space: a list of numbers (line 20)
    stack,              \* the data stack (line 21)
    rstack,             \* the call stack (line 22)
    run_time_dispatch,  \* the run-time table: byte -> action (line 135)
    stdout,             \* the characters written to sys.stdout, as codes
    mainpc,             \* where main is: "tbfcompile", "main_162", "tbfrun"
    status,             \* "running", "exit0" (sys.exit(0)) or "fatal"
    err,                \* the exception that ended the process, "" if none
    defs,               \* history: the definitions compiled, in text order
    dispatched          \* history: the run-time dispatches, in order

vars == <<program, program_counter, start_address, memory, stack, rstack,
          run_time_dispatch, stdout, mainpc, status, err, defs, dispatched>>

(***************************************************************************)
(* Python integers.                                                        *)
(***************************************************************************)
\* The base-256 digit of position i (1 is the lowest), 0 beyond the length.
Limb(v, i) == IF i <= Len(v) THEN v[i] ELSE 0

RECURSIVE Norm(_)
\* Drop the zero digits of the high end.
Norm(s) ==
    IF s = <<>> THEN <<>>
    ELSE IF s[Len(s)] = 0 THEN Norm(SubSeq(s, 1, Len(s) - 1))
    ELSE s

RECURSIVE Num(_)
\* The number of a small non-negative integer of the model.
Num(n) == IF n = 0 THEN <<>> ELSE <<n % 256>> \o Num(n \div 256)

\* A number below 2^16: every data-space length of the model is one.
IsSmall(v) == Len(v) <= 2

\* The integer of a number below 2^16.
ToInt(v) == Limb(v, 1) + 256 * Limb(v, 2)

\* v < n, for a number v and an integer n of the model.
Less(v, n) == IsSmall(v) /\ ToInt(v) < n

RECURSIVE AddFrom(_, _, _, _)
AddFrom(a, b, i, carry) ==
    IF i > Len(a) /\ i > Len(b)
    THEN (IF carry = 0 THEN <<>> ELSE <<carry>>)
    ELSE LET s == Limb(a, i) + Limb(b, i) + carry
         IN  <<s % 256>> \o AddFrom(a, b, i + 1, s \div 256)

\* a + b
Plus(a, b) == AddFrom(a, b, 1, 0)

RECURSIVE TimesTenFrom(_, _, _)
TimesTenFrom(a, i, carry) ==
    IF i > Len(a) THEN Num(carry)
    ELSE LET s == a[i] * 10 + carry
         IN  <<s % 256>> \o TimesTenFrom(a, i + 1, s \div 256)

RECURSIVE BitOr(_, _)
\* x | y for two non-negative integers of the model.
BitOr(x, y) ==
    IF x = 0 THEN y
    ELSE IF y = 0 THEN x
    ELSE (IF x % 2 = 1 \/ y % 2 = 1 THEN 1 ELSE 0)
         + 2 * BitOr(x \div 2, y \div 2)

\* a | b
Or(a, b) ==
    LET n == IF Len(a) > Len(b) THEN Len(a) ELSE Len(b)
    IN  [i \in 1..n |-> BitOr(Limb(a, i), Limb(b, i))]

\* v << 8 * k
ShiftLeftBytes(v, k) ==
    IF v = <<>> THEN <<>> ELSE [i \in 1..k |-> 0] \o v

\* v | 0xffffffff
Xor32_as_or(v) ==
    LET n == IF Len(v) > 4 THEN Len(v) ELSE 4
    IN  [i \in 1..n |-> IF i <= 4 THEN 255 ELSE v[i]]

\* ~v of Python, -(v + 1): a negative number, shown by negative digits.
Xor32_as_invert(v) ==
    [i \in 1..Len(AddFrom(v, <<1>>, 1, 0)) |-> 0 - AddFrom(v, <<1>>, 1, 0)[i]]

\* v ^ 0xffffffff: the four low digits are complemented, the others kept.
Xor32(v) ==
    LET n == IF Len(v) > 4 THEN Len(v) ELSE 4
    IN  Norm([i \in 1..n |-> IF i <= 4 THEN 255 - Limb(v, i) ELSE v[i]])

(***************************************************************************)
(* The program text.                                                       *)
(***************************************************************************)
Whitespace == {" ", "\n"}
Digits == <<"0", "1", "2", "3", "4", "5", "6", "7", "8", "9">>
DigitChars == {Digits[i] : i \in 1..Len(Digits)}
DigitVal(c) == (CHOOSE i \in 1..Len(Digits) : Digits[i] = c) - 1

\* program[i], for 0 <= i < len(program)
At(i) == program[i + 1]

\* program[i:j]
Text(i, j) == SubSeq(program, i + 1, j)

RECURSIVE int(_)
\* int(s) of a non-empty string of decimal digits
int(s) ==
    IF s = <<>> THEN <<>>
    ELSE CHOOSE n \in {Plus(t, Num(DigitVal(s[Len(s)]))) :
                           t \in {TimesTenFrom(hi, 1, 0) :
                                     hi \in {int(SubSeq(s, 1, Len(s) - 1))}}} :
            TRUE

RECURSIVE advance_past_whitespace(_)
\* Where the loop of line 37 stops when started at p.  It reads program[p]
\* before it tests it: the result len(program) stands for the IndexError
\* raised with the cursor there.
advance_past_whitespace(p) ==
    IF p >= Len(program) THEN Len(program)
    ELSE IF At(p) \in Whitespace THEN advance_past_whitespace(p + 1)
    ELSE p

RECURSIVE eat_comment(_)
\* Where the loop of line 34 stops when started at p: at the next ')', or
\* at len(program) with an IndexError.
eat_comment(p) ==
    IF p >= Len(program) THEN Len(program)
    ELSE IF At(p) = ")" THEN p
    ELSE eat_comment(p + 1)

RECURSIVE read_number(_)
\* Where the loop of line 59 stops when started at p: at the first byte
\* that is no digit, or at len(program) with an IndexError.
read_number(p) ==
    IF p >= Len(program) THEN Len(program)
    ELSE IF At(p) \in DigitChars THEN read_number(p + 1)
    ELSE p

(***************************************************************************)
(* The dispatch tables.                                                    *)
(***************************************************************************)
None == -1

Builtin(name) == [op |-> name, n |-> 0]

\* compile_time_dispatch (lines 76-84): its keys
compile_time_dispatch ==
    {"(", "v", ":", "b", "#", "^", " ", "\n"}

\* run_time_dispatch as built by lines 135-147
InitialRunTimeDispatch ==
    [c \in {"(", "W", "G", "Q", "+", "~", "@", "!", ";", " ", "\n"}
           \cup DigitChars |->
        CASE c = "(" -> Builtin("eat_comment")
          [] c = "W" -> Builtin("write_out")
          [] c = "G" -> Builtin("read_byte")
          [] c = "Q" -> Builtin("quit")
          [] c = "+" -> Builtin("add")
          [] c = "~" -> Builtin("bitwise_not")
          [] c = "@" -> Builtin("fetch")
          [] c = "!" -> Builtin("store")
          [] c = ";" -> Builtin("return_from_function")
          [] c \in Whitespace -> Builtin("nop")
          [] OTHER -> Builtin("push_literal")]

\* A table that keeps the first action stored under a name.
SetItem_keep_first(d, name, action) ==
    [c \in DOMAIN d \cup {name} |-> IF c \in DOMAIN d THEN d[c] ELSE action]

\* d[name] = action
SetItem(d, name, action) ==
    [c \in DOMAIN d \cup {name} |-> IF c = name THEN action ELSE d[c]]

(***************************************************************************)
(* The program texts the model is run on.                                  *)
(***************************************************************************)
MaxSnippets == 3    \* snippets appended to a head
MaxRStack == 3      \* call depth at which the model stops following a run

RECURSIVE Flatten(_)
Flatten(ss) == IF ss = <<>> THEN <<>> ELSE Head(ss) \o Flatten(Tail(ss))

SeqsUpTo(S, n) == UNION {[1..k -> S] : k \in 0..n}

\* Texts of the compile pass alone: every mix of the constructs.
CompileSnippets ==
    { <<"v">>, <<":">>, <<"x">>, <<"b", "1">>, <<"#", "7", " ">>, <<"^">>,
      <<" ">>, <<"(">>, <<")">>, <<"Q">> }

\* Data-space programs.
\*   #258^        memory [2, 1, 0, 0]
\*   b7b300#1^    memory [7, 300, 1, 0, 0, 0]
\*   ^            memory []
MemoryHeads ==
    { <<"#", "2", "5", "8", "^">>,
      <<"b", "7", "b", "3", "0", "0", "#", "1", "^">>,
      <<"^">> }

\* 4294967303 is 2^32 + 7.
MemorySnippets ==
    { <<"7", " ">>,
      <<"4", "2", "9", "4", "9", "6", "7", "3", "0", "3", " ">>,
      <<"~">>, <<"+">>, <<"0", "!">>, <<"2", "!">>, <<"0", "@">>, <<"2", "@">> }

\* Programs with labels and functions.
\*   vxb65vy#66:fxy;^    x = 0, y = 1, f pushes x and y
\*   :f;vfb1vf:+;^       f: a function, then label 0, then label 1; + a function
\*   vf:fQ;v~^           f: a label, then a function; ~ a label
ControlHeads ==
    { <<"v", "x", "b", "6", "5", "v", "y", "#", "6", "6", ":", "f", "x", "y",
        ";", "^">>,
      <<":", "f", ";", "v", "f", "b", "1", "v", "f", ":", "+", ";", "^">>,
      <<"v", "f", ":", "f", "Q", ";", "v", "~", "^">> }

ControlSnippets ==
    { <<"f">>, <<"x">>, <<"y">>, <<"+">>, <<"~">>, <<";">>, <<"Q">>, <<"W">>,
      <<"G">>, <<"(", ";", ")">> }

\* b 65 b 66 ^ 0 2 W Q
ScenarioWrite ==
    <<"b", " ", "6", "5", " ", "b", " ", "6", "6", " ", "^", " ", "0", " ",
      "2", " ", "W", " ", "Q">>

\* : f b 1 ; ^ f
ScenarioLiteralInBody ==
    <<":", " ", "f", " ", "b", " ", "1", " ", ";", " ", "^", " ", "f">>

\* :ff^f    f calls itself
ScenarioRecursion == <<":", "f", "f", "^", "f">>

\* :g;:fg;^fQ\n    a call inside a call, then a halt
ScenarioNested ==
    <<":", "g", ";", ":", "f", "g", ";", "^", "f", "Q", "\n">>

\* vxb1vy^7 y!xy    a store that lengthens the data space, then the labels
ScenarioLabels ==
    <<"v", "x", "b", "1", "v", "y", "^", "7", " ", "y", "!", "x", "y">>

\* ^v^(^)^Q    a '^', one eaten as a name, one in a comment, a last one
ScenarioCarets == <<"^", "v", "^", "(", "^", ")", "^", "Q">>

Family(heads, snippets) ==
    {h \o Flatten(b) : h \in heads, b \in SeqsUpTo(snippets, MaxSnippets)}

Programs ==
    Family({<<>>}, CompileSnippets)
    \cup Family(MemoryHeads, MemorySnippets)
    \cup Family(ControlHeads, ControlSnippets)
    \cup {ScenarioWrite, ScenarioLiteralInBody, ScenarioRecursion,
          ScenarioNested, ScenarioLabels, ScenarioCarets}

\* The bytes sys.stdin can deliver to G.
InputBytes == {0, 65, 255}

(***************************************************************************)
(* The state after the module is loaded and main has read the file.        *)
(***************************************************************************)
Init ==
    /\ program \in Programs
    /\ program_counter = 0
    /\ start_address = None
    /\ memory = <<>>
    /\ stack = <<>>
    /\ rstack = <<>>
    /\ run_time_dispatch = InitialRunTimeDispatch
    /\ stdout = <<>>
    /\ mainpc = "tbfcompile"
    /\ status = "running"
    /\ err = ""
    /\ defs = <<>>
    /\ dispatched = <<>>

\* An uncaught exception ends the process.
Raise(e) == status' = "fatal" /\ err' = e

(***************************************************************************)
(* The compile pass: one action is one iteration of the loop of            *)
(* tbfcompile, for one kind of byte.                                       *)
(***************************************************************************)
\* Lines 87-89: the loop is at byte c.
Compiling(c) ==
    /\ mainpc = "tbfcompile"
    /\ status = "running"
    /\ program_counter < Len(program)
    /\ At(program_counter) = c

tbfcompile_eat_comment ==
    /\ Compiling("(")
    /\ LET p == eat_comment(program_counter + 1)
       IN  IF p >= Len(program)
           THEN program_counter' = Len(program) /\ Raise("IndexError")
           ELSE program_counter' = p + 1 /\ UNCHANGED <<status, err>>
    /\ UNCHANGED <<program, start_address, memory, stack, rstack,
                   run_time_dispatch, stdout, mainpc, defs, dispatched>>

\* Lines 42-43 and 53-54: where the name is, after the whitespace.
NamePosition == advance_past_whitespace(program_counter + 1)

\* Lines 42-45 and 53-56: the name is read and eaten, and the action made
\* by kind(value) is stored under it.
Define(kind, value) ==
    LET p == NamePosition
    IN  IF p >= Len(program)
        THEN /\ program_counter' = Len(program)
             /\ Raise("IndexError")
             /\ UNCHANGED <<run_time_dispatch, defs>>
        ELSE /\ program_counter' = p + 1
             /\ run_time_dispatch' =
                    SetItem(run_time_dispatch, At(p),
                            [op |-> kind, n |-> value])
             /\ defs' = Append(defs, [name |-> At(p), op |-> kind, at |-> p,
                                      here |-> Len(memory)])
             /\ UNCHANGED <<status, err>>

dataspace_label ==
    /\ Compiling("v")
    /\ Define("push_dataspace_label", Len(memory))
    /\ UNCHANGED <<program, start_address, memory, stack, rstack, stdout,
                   mainpc, dispatched>>

define_function ==
    /\ Compiling(":")
    /\ Define("call_function", NamePosition + 1)
    /\ UNCHANGED <<program, start_address, memory, stack, rstack, stdout,
                   mainpc, dispatched>>

\* The second byte taken without its shift.
as_bytes_unshifted(num) ==
    <<Num(Limb(num, 1)), Num(Limb(num, 1)), Num(Limb(num, 3)),
      Num(Limb(num, 4))>>

\* "Convert a 32-byte number into a little-endian byte sequence."
as_bytes(num) ==
    <<Num(Limb(num, 1)), Num(Limb(num, 2)), Num(Limb(num, 3)),
      Num(Limb(num, 4))>>

\* A literal after which the cursor is put back on its token, as push_literal
\* does at run time.
ReadLiteral_rewound ==
    LET start == advance_past_whitespace(program_counter + 1)
        end   == read_number(start)
    IN  IF end >= Len(program)
        THEN [pc |-> Len(program), err |-> "IndexError", num |-> <<>>]
        ELSE IF end = start
        THEN [pc |-> start, err |-> "ValueError", num |-> <<>>]
        ELSE [pc |-> program_counter, err |-> "",
              num |-> int(Text(start, end))]

\* Lines 62-63 and 69-70: the literal read after the whitespace: where the
\* cursor is left, the exception raised if any, and the number read.
\* int('') raises ValueError.
ReadLiteral ==
    LET start == advance_past_whitespace(program_counter + 1)
        end   == read_number(start)
    IN  IF end >= Len(program)
        THEN [pc |-> Len(program), err |-> "IndexError", num |-> <<>>]
        ELSE IF end = start
        THEN [pc |-> start, err |-> "ValueError", num |-> <<>>]
        ELSE [pc |-> end, err |-> "", num |-> int(Text(start, end))]

literal_byte ==
    /\ Compiling("b")
    /\ \E lit \in {ReadLiteral} :
          /\ program_counter' = lit.pc
          /\ IF lit.err # ""
             THEN Raise(lit.err) /\ UNCHANGED memory
             ELSE /\ memory' = Append(memory, lit.num)
                  /\ UNCHANGED <<status, err>>
    /\ UNCHANGED <<program, start_address, stack, rstack, run_time_dispatch,
                   stdout, mainpc, defs, dispatched>>

literal_word ==
    /\ Compiling("#")
    /\ \E lit \in {ReadLiteral} :
          /\ program_counter' = lit.pc
          /\ IF lit.err # ""
             THEN Raise(lit.err) /\ UNCHANGED memory
             ELSE /\ memory' = memory \o as_bytes(lit.num)
                  /\ UNCHANGED <<status, err>>
    /\ UNCHANGED <<program, start_address, stack, rstack, run_time_dispatch,
                   stdout, mainpc, defs, dispatched>>

\* A start address that a later '^' does not overwrite.
set_start_address_once ==
    /\ Compiling("^")
    /\ program_counter' = program_counter + 1
    /\ start_address' = IF start_address = None THEN program_counter + 1
                        ELSE start_address
    /\ UNCHANGED <<program, memory, stack, rstack, run_time_dispatch, stdout,
                   mainpc, status, err, defs, dispatched>>

set_start_address ==
    /\ Compiling("^")
    /\ program_counter' = program_counter + 1
    /\ start_address' = program_counter + 1
    /\ UNCHANGED <<program, memory, stack, rstack, run_time_dispatch, stdout,
                   mainpc, status, err, defs, dispatched>>

tbfcompile_nop ==
    /\ \E c \in Whitespace : Compiling(c)
    /\ program_counter' = program_counter + 1
    /\ UNCHANGED <<program, start_address, memory, stack, rstack,
                   run_time_dispatch, stdout, mainpc, status, err, defs,
                   dispatched>>

\* Lines 92-93: a byte of the run-time table is ignored.
tbfcompile_ignore ==
    /\ \E c \in DOMAIN run_time_dispatch \ compile_time_dispatch :
          Compiling(c)
    /\ program_counter' = program_counter + 1
    /\ UNCHANGED <<program, start_address, memory, stack, rstack,
                   run_time_dispatch, stdout, mainpc, status, err, defs,
                   dispatched>>

\* A scanner that passes over a byte it does not know.
tbfcompile_undefined_skipped ==
    /\ mainpc = "tbfcompile"
    /\ status = "running"
    /\ program_counter < Len(program)
    /\ At(program_counter) \notin compile_time_dispatch
    /\ At(program_counter) \notin DOMAIN run_time_dispatch
    /\ program_counter' = program_counter + 1
    /\ UNCHANGED <<program, start_address, memory, stack, rstack,
                   run_time_dispatch, stdout, mainpc, status, err, defs,
                   dispatched>>

\* Lines 94-97: assert False, '%r not defined at %r'
tbfcompile_undefined ==
    /\ mainpc = "tbfcompile"
    /\ status = "running"
    /\ program_counter < Len(program)
    /\ At(program_counter) \notin compile_time_dispatch
    /\ At(program_counter) \notin DOMAIN run_time_dispatch
    /\ program_counter' = program_counter + 1
    /\ Raise("AssertionError: not defined")
    /\ UNCHANGED <<program, start_address, memory, stack, rstack,
                   run_time_dispatch, stdout, mainpc, defs, dispatched>>

\* A loop that stops one byte early.
LoopEnds_one_early == ~(program_counter < Len(program) - 1)

\* Line 87: the condition of the while loop is false.
LoopEnds == ~(program_counter < Len(program))

\* tbfcompile returns and main goes on (line 162).
tbfcompile_return ==
    /\ mainpc = "tbfcompile"
    /\ status = "running"
    /\ LoopEnds
    /\ mainpc' = "main_162"
    /\ UNCHANGED <<program, program_counter, start_address, memory, stack,
                   rstack, run_time_dispatch, stdout, status, err, defs,
                   dispatched>>

(***************************************************************************)
(* The run pass.                                                           *)
(***************************************************************************)
\* tbfrun without its assertion, starting at 0 when no '^' was compiled.
tbfrun_enter_unchecked ==
    /\ mainpc = "main_162"
    /\ status = "running"
    /\ mainpc' = "tbfrun"
    /\ program_counter' = IF start_address = None THEN 0 ELSE start_address
    /\ UNCHANGED <<program, start_address, memory, stack, rstack,
                   run_time_dispatch, stdout, status, err, defs, dispatched>>

\* Lines 162-163 and 150-152: the data space is dumped to stderr, then
\* tbfrun asserts the start address and moves the cursor to it.
tbfrun_enter ==
    /\ mainpc = "main_162"
    /\ status = "running"
    /\ mainpc' = "tbfrun"
    /\ IF start_address = None
       THEN Raise("AssertionError") /\ UNCHANGED program_counter
       ELSE program_counter' = start_address /\ UNCHANGED <<status, err>>
    /\ UNCHANGED <<program, start_address, memory, stack, rstack,
                   run_time_dispatch, stdout, defs, dispatched>>

\* Lines 153-156: the loop is at a byte whose table entry is the action op.
Dispatching(op) ==
    /\ mainpc = "tbfrun"
    /\ status = "running"
    /\ program_counter < Len(program)
    /\ At(program_counter) \in DOMAIN run_time_dispatch
    /\ run_time_dispatch[At(program_counter)].op = op

\* The entry of the byte at the cursor.
Entry == run_time_dispatch[At(program_counter)]

\* History: the dispatch of the byte at the cursor, with the stack and the
\* length of the data space before it.
Log ==
    dispatched' = Append(dispatched,
                         [at |-> program_counter, byte |-> At(program_counter),
                          op |-> Entry.op, stack |-> stack,
                          len |-> Len(memory)])

Top(s) == s[Len(s)]
Pop(s) == SubSeq(s, 1, Len(s) - 1)

\* A loop that ends the run normally at the end of the text.
tbfrun_IndexError_clean_end ==
    /\ mainpc = "tbfrun"
    /\ status = "running"
    /\ ~(program_counter < Len(program))
    /\ status' = "exit0"
    /\ UNCHANGED <<program, program_counter, start_address, memory, stack,
                   rstack, run_time_dispatch, stdout, mainpc, err, defs,
                   dispatched>>

\* Line 154 raises IndexError: the cursor is past the end of the text.
tbfrun_IndexError ==
    /\ mainpc = "tbfrun"
    /\ status = "running"
    /\ ~(program_counter < Len(program))
    /\ Raise("IndexError")
    /\ UNCHANGED <<program, program_counter, start_address, memory, stack,
                   rstack, run_time_dispatch, stdout, mainpc, defs,
                   dispatched>>

\* A loop that passes over a byte that is no key of the table.
tbfrun_KeyError_skipped ==
    /\ mainpc = "tbfrun"
    /\ status = "running"
    /\ program_counter < Len(program)
    /\ At(program_counter) \notin DOMAIN run_time_dispatch
    /\ program_counter' = program_counter + 1
    /\ UNCHANGED <<program, start_address, memory, stack, rstack,
                   run_time_dispatch, stdout, mainpc, status, err, defs,
                   dispatched>>

\* Line 156 raises KeyError: the byte is no key of the table.
tbfrun_KeyError ==
    /\ mainpc = "tbfrun"
    /\ status = "running"
    /\ program_counter < Len(program)
    /\ At(program_counter) \notin DOMAIN run_time_dispatch
    /\ program_counter' = program_counter + 1
    /\ Raise("KeyError")
    /\ UNCHANGED <<program, start_address, memory, stack, rstack,
                   run_time_dispatch, stdout, mainpc, defs, dispatched>>

tbfrun_eat_comment ==
    /\ Dispatching("eat_comment")
    /\ Log
    /\ LET p == eat_comment(program_counter + 1)
       IN  IF p >= Len(program)
           THEN program_counter' = Len(program) /\ Raise("IndexError")
           ELSE program_counter' = p + 1 /\ UNCHANGED <<status, err>>
    /\ UNCHANGED <<program, start_address, memory, stack, rstack,
                   run_time_dispatch, stdout, mainpc, defs>>

tbfrun_nop ==
    /\ Dispatching("nop")
    /\ Log
    /\ program_counter' = program_counter + 1
    /\ UNCHANGED <<program, start_address, memory, stack, rstack,
                   run_time_dispatch, stdout, mainpc, status, err, defs>>

\* Lines 109-110: the characters of memory[address .. address+count-1], or
\* the exception that building them raises.  chr raises ValueError on a
\* number above 255, memory[ii] raises IndexError past the end; the first
\* index that fails decides.
Characters(address, count) ==
    IF count = <<>> THEN [err |-> "", out |-> <<>>]
    ELSE IF ~Less(address, Len(memory)) THEN [err |-> "IndexError", out |-> <<>>]
    ELSE LET a     == ToInt(address)
             avail == Len(memory) - a
             fits  == Less(count, avail + 1)
             n     == IF fits THEN ToInt(count) ELSE avail
         IN  IF \E i \in 1..n : ~Less(memory[a + i], 256)
             THEN [err |-> "ValueError", out |-> <<>>]
             ELSE IF ~fits THEN [err |-> "IndexError", out |-> <<>>]
             ELSE [err |-> "", out |-> [i \in 1..n |-> ToInt(memory[a + i])]]

\* range(address, address+count) builds its list first: from 2^24 items or
\* bounds on, the build may refuse it (OverflowError) or run out of memory.
RangeErrors(address, count) ==
    IF count # <<>> /\ (Len(count) > 3 \/ Len(address) > 3)
    THEN {"OverflowError", "MemoryError"}
    ELSE {}

\* The address popped first, the count second.
WriteArgs_address_first(s) == [count |-> Top(Pop(s)), address |-> Top(s)]

\* Lines 106-107: count is popped first, then address.
WriteArgs(s) == [count |-> Top(s), address |-> Top(Pop(s))]

write_out ==
    /\ Dispatching("write_out")
    /\ Log
    /\ program_counter' = program_counter + 1
    /\ IF Len(stack) = 0
       THEN Raise("IndexError") /\ UNCHANGED <<stack, stdout>>
       ELSE IF Len(stack) = 1
       THEN stack' = <<>> /\ Raise("IndexError") /\ UNCHANGED stdout
       ELSE LET count   == WriteArgs(stack).count
                address == WriteArgs(stack).address
                chars   == Characters(address, count)
            IN  /\ stack' = Pop(Pop(stack))
                /\ IF chars.err = ""
                   THEN stdout' = stdout \o chars.out /\ UNCHANGED <<status, err>>
                   ELSE /\ UNCHANGED stdout
                        /\ \E e \in {chars.err} \cup RangeErrors(address, count) :
                              Raise(e)
    /\ UNCHANGED <<program, start_address, memory, rstack, run_time_dispatch,
                   mainpc, defs>>

\* sys.stdin.read(1) gives one byte, or '' at the end of the input, and
\* ord('') raises TypeError.
read_byte ==
    /\ Dispatching("read_byte")
    /\ Log
    /\ program_counter' = program_counter + 1
    /\ \/ \E b \in InputBytes :
             stack' = Append(stack, Num(b)) /\ UNCHANGED <<status, err>>
       \/ Raise("TypeError") /\ UNCHANGED stack
    /\ UNCHANGED <<program, start_address, memory, rstack, run_time_dispatch,
                   stdout, mainpc, defs>>

quit ==
    /\ Dispatching("quit")
    /\ Log
    /\ program_counter' = program_counter + 1
    /\ status' = "exit0"
    /\ UNCHANGED <<program, start_address, memory, stack, rstack,
                   run_time_dispatch, stdout, mainpc, err, defs>>

add ==
    /\ Dispatching("add")
    /\ Log
    /\ program_counter' = program_counter + 1
    /\ IF Len(stack) = 0
       THEN Raise("IndexError") /\ UNCHANGED stack
       ELSE IF Len(stack) = 1
       THEN stack' = <<>> /\ Raise("IndexError")
       ELSE /\ stack' = Append(Pop(Pop(stack)), Plus(Top(stack), Top(Pop(stack))))
            /\ UNCHANGED <<status, err>>
    /\ UNCHANGED <<program, start_address, memory, rstack, run_time_dispatch,
                   stdout, mainpc, defs>>

\* Lines 116-118: the cursor goes back to the digit that was dispatched.
push_literal ==
    /\ Dispatching("push_literal")
    /\ Log
    /\ LET start == program_counter
           end   == read_number(start)
       IN  IF end >= Len(program)
           THEN /\ program_counter' = Len(program)
                /\ Raise("IndexError")
                /\ UNCHANGED stack
           ELSE /\ program_counter' = end
                /\ stack' = Append(stack, int(Text(start, end)))
                /\ UNCHANGED <<status, err>>
    /\ UNCHANGED <<program, start_address, memory, rstack, run_time_dispatch,
                   stdout, mainpc, defs>>

decode(bytes) ==
    Or(Or(Or(bytes[1], ShiftLeftBytes(bytes[2], 1)),
          ShiftLeftBytes(bytes[3], 2)),
       ShiftLeftBytes(bytes[4], 3))

\* The bounds of the slice mem[addr:addr+4]: Python clips them to the list.
SliceLow(mem, addr) == IF Less(addr, Len(mem)) THEN ToInt(addr) ELSE Len(mem)
SliceHigh(mem, addr) ==
    IF Less(addr, Len(mem) - 4) THEN ToInt(addr) + 4 ELSE Len(mem)

\* A fetch that reads the bytes past the end as 0.
fetch_zero_padded ==
    /\ Dispatching("fetch")
    /\ Log
    /\ program_counter' = program_counter + 1
    /\ IF Len(stack) = 0
       THEN Raise("IndexError") /\ UNCHANGED stack
       ELSE LET addr  == Top(stack)
                bytes == SubSeq(memory, SliceLow(memory, addr) + 1,
                                SliceHigh(memory, addr))
            IN  /\ stack' = Append(Pop(stack),
                                   decode(bytes \o [i \in 1..4 |-> <<>>]))
                /\ UNCHANGED <<status, err>>
    /\ UNCHANGED <<program, start_address, memory, rstack, run_time_dispatch,
                   stdout, mainpc, defs>>

\* Lines 122-123: decode raises IndexError on a slice of fewer than 4 items.
fetch ==
    /\ Dispatching("fetch")
    /\ Log
    /\ program_counter' = program_counter + 1
    /\ IF Len(stack) = 0
       THEN Raise("IndexError") /\ UNCHANGED stack
       ELSE LET addr  == Top(stack)
                bytes == SubSeq(memory, SliceLow(memory, addr) + 1,
                                SliceHigh(memory, addr))
            IN  IF Len(bytes) < 4
                THEN stack' = Pop(stack) /\ Raise("IndexError")
                ELSE /\ stack' = Append(Pop(stack), decode(bytes))
                     /\ UNCHANGED <<status, err>>
    /\ UNCHANGED <<program, start_address, memory, rstack, run_time_dispatch,
                   stdout, mainpc, defs>>

\* Lines 125-126: the slice assignment replaces what the slice holds, which
\* is fewer than 4 items when addr+4 is past the end.
store ==
    /\ Dispatching("store")
    /\ Log
    /\ program_counter' = program_counter + 1
    /\ IF Len(stack) = 0
       THEN Raise("IndexError") /\ UNCHANGED <<stack, memory>>
       ELSE IF Len(stack) = 1
       THEN stack' = <<>> /\ Raise("IndexError") /\ UNCHANGED memory
       ELSE LET addr == Top(stack)
                num  == Top(Pop(stack))
            IN  /\ stack' = Pop(Pop(stack))
                /\ memory' = SubSeq(memory, 1, SliceLow(memory, addr))
                             \o as_bytes(num)
                             \o SubSeq(memory, SliceHigh(memory, addr) + 1,
                                       Len(memory))
                /\ UNCHANGED <<status, err>>
    /\ UNCHANGED <<program, start_address, rstack, run_time_dispatch, stdout,
                   mainpc, defs>>

bitwise_not ==
    /\ Dispatching("bitwise_not")
    /\ Log
    /\ program_counter' = program_counter + 1
    /\ IF Len(stack) = 0
       THEN Raise("IndexError") /\ UNCHANGED stack
       ELSE /\ stack' = Append(Pop(stack), Xor32(Top(stack)))
            /\ UNCHANGED <<status, err>>
    /\ UNCHANGED <<program, start_address, memory, rstack, run_time_dispatch,
                   stdout, mainpc, defs>>

\* A return that reads the call stack and leaves the offset on it.
return_from_function_unpopped ==
    /\ Dispatching("return_from_function")
    /\ Log
    /\ IF Len(rstack) = 0
       THEN /\ program_counter' = program_counter + 1
            /\ Raise("IndexError")
            /\ UNCHANGED rstack
       ELSE /\ program_counter' = Top(rstack)
            /\ UNCHANGED <<rstack, status, err>>
    /\ UNCHANGED <<program, start_address, memory, stack, run_time_dispatch,
                   stdout, mainpc, defs>>

return_from_function ==
    /\ Dispatching("return_from_function")
    /\ Log
    /\ IF Len(rstack) = 0
       THEN /\ program_counter' = program_counter + 1
            /\ Raise("IndexError")
            /\ UNCHANGED rstack
       ELSE /\ program_counter' = Top(rstack)
            /\ rstack' = Pop(rstack)
            /\ UNCHANGED <<status, err>>
    /\ UNCHANGED <<program, start_address, memory, stack, run_time_dispatch,
                   stdout, mainpc, defs>>

\* Lines 47-50, the action made by call_function(n)
call_function ==
    /\ Dispatching("call_function")
    /\ Len(rstack) < MaxRStack
    /\ Log
    /\ rstack' = Append(rstack, program_counter + 1)
    /\ program_counter' = Entry.n
    /\ UNCHANGED <<program, start_address, memory, stack, run_time_dispatch,
                   stdout, mainpc, status, err, defs>>

\* A label that pushes the length of the data space when it is executed.
push_dataspace_label_late ==
    /\ Dispatching("push_dataspace_label")
    /\ Log
    /\ program_counter' = program_counter + 1
    /\ stack' = Append(stack, Num(Len(memory)))
    /\ UNCHANGED <<program, start_address, memory, rstack, run_time_dispatch,
                   stdout, mainpc, status, err, defs>>

\* Line 39, the action made by push_dataspace_label(n)
push_dataspace_label ==
    /\ Dispatching("push_dataspace_label")
    /\ Log
    /\ program_counter' = program_counter + 1
    /\ stack' = Append(stack, Num(Entry.n))
    /\ UNCHANGED <<program, start_address, memory, rstack, run_time_dispatch,
                   stdout, mainpc, status, err, defs>>

Next ==
    \/ tbfcompile_eat_comment
    \/ dataspace_label
    \/ define_function
    \/ literal_byte
    \/ literal_word
    \/ set_start_address
    \/ tbfcompile_nop
    \/ tbfcompile_ignore
    \/ tbfcompile_undefined
    \/ tbfcompile_return
    \/ tbfrun_enter
    \/ tbfrun_IndexError
    \/ tbfrun_KeyError
    \/ tbfrun_eat_comment
    \/ tbfrun_nop
    \/ write_out
    \/ read_byte
    \/ quit
    \/ add
    \/ push_literal
    \/ fetch
    \/ store
    \/ bitwise_not
    \/ return_from_function
    \/ call_function
    \/ push_dataspace_label

Spec == Init /\ [][Next]_vars

(***************************************************************************)
(* What the properties below speak of.                                     *)
(***************************************************************************)
\* This step dispatches a byte to the run-time action op.
Executes(op) ==
    /\ Len(dispatched') = Len(dispatched) + 1
    /\ Top(dispatched').op = op

\* The step ends without an exception and without a halt.
GoesOn == status' = "running"

\* v mod 2^32
Mod32(v) == Norm(SubSeq(v, 1, IF Len(v) < 4 THEN Len(v) ELSE 4))

\* The 4 bytes addr .. addr+3 are inside a data space of length len.
InExtent(addr, len) == Less(addr, len - 3)

\* The compiled definitions of the byte c, in text order.
DefsOf(c) == SelectSeq(defs, LAMBDA d : d.name = c)

\* The textually last definition of the byte c.
LastDef(c) == Top(DefsOf(c))

\* No byte of the text is c.
TextWithout(c) == \A i \in 1..Len(program) : program[i] # c

\* C1: no run-time action takes effect before the scanner of the compile
\* pass has reached the end of the text: while the compile pass runs, both
\* stacks and the output stay empty and nothing is dispatched; main leaves
\* the compile pass only with the cursor at the end of the text and without
\* an error; after a fatal error of the compile pass nothing happens.
C1_CompileBeforeRun ==
    /\ [](mainpc = "tbfcompile" =>
             /\ stack = <<>> /\ rstack = <<>> /\ stdout = <<>>
             /\ dispatched = <<>>)
    /\ [][/\ (mainpc = "tbfcompile" /\ mainpc' # "tbfcompile") =>
                 (program_counter = Len(program) /\ status = "running")
          /\ (mainpc = "tbfcompile" /\ status = "fatal") => UNCHANGED vars
         ]_vars

\* C1 witness: the run pass has written output.
C1_Witness ==
    mainpc = "tbfrun" /\ stdout # <<>> /\ program_counter < Len(program)

\* C2: the run pass ends only by Q or by a fatal error: the process exits
\* with status 0 only in the run pass, right after the dispatch of the byte
\* Q to quit; main never gets past tbfrun; and the loop at a cursor past
\* the end of the text fails.
C2_HaltOnlyByQ ==
    /\ [](/\ status \in {"running", "exit0", "fatal"}
          /\ mainpc \in {"tbfcompile", "main_162", "tbfrun"}
          /\ status = "fatal" <=> err # ""
          /\ status = "exit0" =>
                /\ mainpc = "tbfrun"
                /\ dispatched # <<>>
                /\ Top(dispatched).byte = "Q"
                /\ Top(dispatched).op = "quit"
                /\ Top(dispatched).at = program_counter - 1)
    /\ [][/\ (mainpc = "tbfrun" /\ status = "running"
                 /\ program_counter >= Len(program)) => status' = "fatal"
          /\ mainpc = "tbfrun" => mainpc' = "tbfrun"
          /\ status # "running" => UNCHANGED vars
         ]_vars

\* C2 witness: a halt by Q after other tokens were dispatched.
C2_Witness == status = "exit0" /\ Len(dispatched) > 1

\* C3: with no '^' compiled (in particular with no '^' in the text) the run
\* pass fails on entry with the assertion error, nothing is dispatched, and
\* stacks, data space and output are as the compile pass left them.
C3_EntryNotSet ==
    /\ []((mainpc = "tbfrun" /\ (start_address = None \/ TextWithout("^"))) =>
             /\ status = "fatal" /\ err = "AssertionError"
             /\ dispatched = <<>>
             /\ stack = <<>> /\ rstack = <<>> /\ stdout = <<>>)
    /\ [][(mainpc = "main_162" /\ start_address = None) =>
             /\ mainpc' = "tbfrun"
             /\ UNCHANGED <<memory, stack, rstack, stdout, dispatched,
                            program_counter>>
         ]_vars

\* C3 witness: the run pass failed on entry after a compile pass that
\* filled the data space and defined a name.
C3_Witness ==
    /\ mainpc = "tbfrun" /\ start_address = None /\ status = "fatal"
    /\ memory # <<>> /\ defs # <<>>

\* C4: a W that succeeds pops count, then address, appends to the output
\* the count bytes memory[address .. address+count-1] in ascending order
\* and leaves the data space as it is; the program b 65 b 66 ^ 0 2 W Q ends
\* by a successful halt with data space [65, 66] and output 65, 66.
C4_WriteOut ==
    /\ [][(Executes("write_out") /\ GoesOn) =>
             /\ Len(stack) >= 2
             /\ LET count   == stack[Len(stack)]
                    address == stack[Len(stack) - 1]
                IN  /\ stack' = SubSeq(stack, 1, Len(stack) - 2)
                    /\ IsSmall(count)
                    /\ count # <<>> => IsSmall(address)
                    /\ Len(stdout') = Len(stdout) + ToInt(count)
                    /\ SubSeq(stdout', 1, Len(stdout)) = stdout
                    /\ \A k \in 1..ToInt(count) :
                          /\ ToInt(address) + k <= Len(memory)
                          /\ Num(stdout'[Len(stdout) + k])
                                = memory[ToInt(address) + k]
             /\ memory' = memory
         ]_vars
    /\ []((program = ScenarioWrite /\ status # "running") =>
             /\ status = "exit0"
             /\ memory = <<Num(65), Num(66)>>
             /\ stdout = <<65, 66>>
             /\ stack = <<>>)

\* C4 witness: the scenario has halted.
C4_Witness == program = ScenarioWrite /\ status = "exit0"

\* C5: executing a data label pushes the length the data space had when
\* its v was scanned: 0 when no b or # precedes the definition in the text,
\* and whatever was appended or stored afterwards.
C5_LabelPushesHere ==
    [][Executes("push_dataspace_label") =>
          LET d == LastDef(At(program_counter))
          IN  /\ d.op = "push_dataspace_label"
              /\ stack' = Append(stack, Num(d.here))
              /\ d.here <= Len(memory)
              /\ (\A i \in 0..(d.at - 1) : At(i) \notin {"b", "#"}) =>
                    stack' = Append(stack, <<>>)
      ]_vars

\* C5 witness: a label defined after 1 byte is executed when the data
\* space holds 5.
C5_Witness ==
    /\ dispatched # <<>>
    /\ Top(dispatched).op = "push_dataspace_label"
    /\ stack # <<>> /\ Top(stack) = Num(1)
    /\ Len(memory) = 5

\* C6: a byte defined more than once by v or : is dispatched to its
\* textually last definition only, also when it is a built-in token.
C6_LastDefinitionWins ==
    /\ [](\A i \in 1..Len(defs) :
             LET d == LastDef(defs[i].name)
             IN  run_time_dispatch[defs[i].name] =
                    [op |-> d.op,
                     n  |-> IF d.op = "call_function" THEN d.at + 1
                            ELSE d.here])
    /\ [][(Len(dispatched') = Len(dispatched) + 1
             /\ DefsOf(At(program_counter)) # <<>>) =>
             LET d == LastDef(At(program_counter))
             IN  /\ Top(dispatched').op = d.op
                 /\ d.op = "push_dataspace_label" =>
                       stack' = Append(stack, Num(d.here))
                 /\ d.op = "call_function" =>
                       /\ program_counter' = d.at + 1
                       /\ rstack' = Append(rstack, program_counter + 1)
                       /\ stack' = stack
         ]_vars

\* C6 witness: a byte with three definitions, or a redefined built-in, has
\* been dispatched.
C6_Witness ==
    /\ dispatched # <<>>
    /\ \/ Len(DefsOf(Top(dispatched).byte)) = 3
       \/ /\ Top(dispatched).byte \in DOMAIN InitialRunTimeDispatch
          /\ DefsOf(Top(dispatched).byte) # <<>>

\* The last store dispatched before now, when there is one.
LastStore ==
    LET S == {i \in 1..Len(dispatched) : dispatched[i].op = "store"}
    IN  IF S = {} THEN 0 ELSE CHOOSE i \in S : \A j \in S : j <= i

\* C7: a ! of value v at an address a with a+4 inside the data space writes
\* 4 bytes there and keeps the length, and a @ at a that follows it, with no
\* other ! in between, pushes v mod 2^32, which is v when v is below 2^32.
C7_StoreFetchRoundTrip ==
    [][/\ (Executes("store") /\ Len(stack) >= 2
              /\ InExtent(Top(stack), Len(memory))) =>
              /\ GoesOn
              /\ Len(memory') = Len(memory)
              /\ \A k \in 1..Len(memory) :
                    IF k \in (ToInt(Top(stack)) + 1)..(ToInt(Top(stack)) + 4)
                    THEN Less(memory'[k], 256)
                    ELSE memory'[k] = memory[k]
       /\ (Executes("fetch") /\ LastStore # 0 /\ stack # <<>>) =>
              LET st == dispatched[LastStore]
              IN  (/\ Len(st.stack) >= 2
                   /\ Top(st.stack) = Top(stack)
                   /\ InExtent(Top(stack), st.len)) =>
                      LET v == Top(Pop(st.stack))
                      IN  /\ GoesOn
                          /\ stack' = Append(Pop(stack), Mod32(v))
                          /\ Len(v) <= 4 => Top(stack') = v
      ]_vars

\* C7 witness: a value of more than 32 bits was stored and fetched back.
C7_Witness ==
    /\ dispatched # <<>> /\ Top(dispatched).op = "fetch"
    /\ status = "running" /\ LastStore # 0
    /\ LET st == dispatched[LastStore]
       IN  /\ Len(st.stack) >= 2
           /\ Top(st.stack) = Top(Top(dispatched).stack)
           /\ InExtent(Top(st.stack), st.len)
           /\ Len(Top(Pop(st.stack))) > 4
           /\ Top(stack) = Num(7)

\* C8: two ~ dispatched one after the other leave the stack as it was
\* below its top, and a top with the low 32 bits it had.
C8_NotTwice ==
    [][(/\ Executes("bitwise_not")
        /\ dispatched # <<>>
        /\ Top(dispatched).op = "bitwise_not"
        /\ Top(dispatched).stack # <<>>) =>
           LET before == Top(dispatched).stack
           IN  /\ GoesOn
               /\ Len(stack') = Len(before)
               /\ Pop(stack') = Pop(before)
               /\ Mod32(Top(stack')) = Mod32(Top(before))
      ]_vars

\* C8 witness: ~ was applied twice to a value of more than 32 bits.
C8_Witness ==
    /\ Len(dispatched) >= 2
    /\ Top(dispatched).op = "bitwise_not"
    /\ dispatched[Len(dispatched) - 1].op = "bitwise_not"
    /\ Len(dispatched[Len(dispatched) - 1].stack) >= 1
    /\ Len(Top(dispatched[Len(dispatched) - 1].stack)) > 4

\* C9 as claimed: a ! whose 4 bytes are not all inside the data space is a
\* fatal error that leaves the data space as it is.
C9_StoreOutOfRangeFails ==
    [][(/\ Executes("store") /\ Len(stack) >= 2
        /\ ~InExtent(Top(stack), Len(memory))) =>
           (status' = "fatal" /\ memory' = memory)
      ]_vars

\* C10: a @ whose 4 bytes are not all inside the data space, also when
\* only the last of them are outside, is a fatal IndexError: the address is
\* popped and nothing is pushed.
C10_FetchOutOfRangeFails ==
    [][(/\ Executes("fetch") /\ stack # <<>>
        /\ ~InExtent(Top(stack), Len(memory))) =>
           /\ status' = "fatal" /\ err' = "IndexError"
           /\ stack' = Pop(stack)
           /\ memory' = memory
      ]_vars

\* C10 witness: a @ at an address whose first bytes are inside the data
\* space and whose last are not has failed.
C10_Witness ==
    /\ dispatched # <<>> /\ Top(dispatched).op = "fetch"
    /\ status = "fatal"
    /\ Top(dispatched).stack # <<>>
    /\ Less(Top(Top(dispatched).stack), Len(memory))
    /\ ~InExtent(Top(Top(dispatched).stack), Len(memory))

\* C11 as claimed: the data space only grows, by appending, and from the
\* start of the run pass on its length does not change.
C11_LengthFixedInRun ==
    [][/\ Len(memory') >= Len(memory)
       /\ mainpc = "tbfcompile" =>
             SubSeq(memory', 1, Len(memory)) = memory
       /\ mainpc # "tbfcompile" => Len(memory') = Len(memory)
      ]_vars

\* The scanner of the compile pass is at a byte it takes as a token.
Scanning ==
    /\ mainpc = "tbfcompile"
    /\ status = "running"
    /\ program_counter < Len(program)

\* The bytes that are keys of the run-time table when the compile pass
\* begins.
BuiltinTokens ==
    {"(", "W", "G", "Q", "+", "~", "@", "!", ";", " ", "\n",
     "0", "1", "2", "3", "4", "5", "6", "7", "8", "9"}

\* The compile-time constructs.
Constructs == {"(", "v", ":", "b", "#", "^", " ", "\n"}

\* C12: in the compile pass a byte scanned as a token that is neither a
\* construct nor, at that moment, a run-time token (built in, or defined
\* by a v or : scanned before) aborts the compilation with the assertion
\* '... not defined ...' and changes nothing else; one that is such a
\* run-time token is passed over with no effect.  So a user-defined name
\* scanned before its definition aborts the compilation.
C12_UndefinedToken ==
    [][(Scanning /\ At(program_counter) \notin Constructs) =>
          /\ program_counter' = program_counter + 1
          /\ UNCHANGED <<memory, stack, rstack, run_time_dispatch, stdout,
                         start_address, mainpc, defs, dispatched>>
          /\ IF \/ At(program_counter) \in BuiltinTokens
                \/ DefsOf(At(program_counter)) # <<>>
             THEN UNCHANGED <<status, err>>
             ELSE status' = "fatal" /\ err' = "AssertionError: not defined"
      ]_vars

\* C12 witness: the compilation was aborted at a name whose definition
\* comes later in the text.
C12_Witness ==
    /\ mainpc = "tbfcompile" /\ status = "fatal"
    /\ err = "AssertionError: not defined"
    /\ \E i \in program_counter..(Len(program) - 2) :
          At(i) \in {"v", ":"} /\ At(i + 1) = At(program_counter - 1)

\* C13: the start address is set by every '^' scanned as a token, to the
\* offset after it, and by nothing else; the run pass begins with the
\* cursor there.  So the run begins after the last '^' that was scanned as
\* a token: a '^' eaten as a name or inside a comment sets nothing.
C13_StartAfterLastCaret ==
    /\ [][/\ (Scanning /\ At(program_counter) = "^") =>
                 start_address' = program_counter + 1
          /\ ~(Scanning /\ At(program_counter) = "^") =>
                 start_address' = start_address
          /\ (mainpc = "main_162" /\ start_address # None) =>
                 /\ program_counter' = start_address
                 /\ mainpc' = "tbfrun" /\ status' = "running"
         ]_vars
    /\ [](start_address # None => At(start_address - 1) = "^")

\* C13 witness: the run pass begins after the fourth '^' of a text in
\* which one '^' was eaten as a name and one is in a comment.
C13_Witness ==
    /\ mainpc = "tbfrun" /\ dispatched = <<>> /\ status = "running"
    /\ program_counter = start_address
    /\ Cardinality({i \in 0..(start_address - 1) : At(i) = "^"}) = 4
    /\ DefsOf("^") # <<>>

\* The bytes dispatched so far.
DispatchedBytes == {dispatched[i].byte : i \in 1..Len(dispatched)}

\* C14 as claimed: in the run of : f b 1 ; ^ f the call of f dispatches
\* neither b nor 1, pushes nothing, and reaches the ; of the body.
C14_BodyLiteralSkipped ==
    (program = ScenarioLiteralInBody /\ status # "running") =>
        /\ stack = <<>>
        /\ "b" \notin DispatchedBytes /\ "1" \notin DispatchedBytes
        /\ ";" \in DispatchedBytes

\* C14 amended: the compile pass consumes a b or # literal of a function
\* body into the data space, but its bytes stay in the text: the run pass
\* fails with KeyError at a b or # that is no defined name, and changes
\* nothing else.  For : f b 1 ; ^ f the data space is [1]; the call of f
\* pushes nothing, dispatches neither b nor 1 nor ;, and the run ends with
\* KeyError at the b of the body, inside the call.
C14_BodyLiteralFails ==
    /\ [][(/\ mainpc = "tbfrun" /\ status = "running"
           /\ program_counter < Len(program)
           /\ At(program_counter) \in {"b", "#"}
           /\ DefsOf(At(program_counter)) = <<>>) =>
              /\ status' = "fatal" /\ err' = "KeyError"
              /\ UNCHANGED <<memory, stack, rstack, stdout, dispatched>>
         ]_vars
    /\ []((program = ScenarioLiteralInBody /\ mainpc = "tbfrun") =>
             /\ memory = <<Num(1)>>
             /\ stack = <<>>
             /\ DispatchedBytes \subseteq {" ", "f"}
             /\ status # "running" =>
                   /\ status = "fatal" /\ err = "KeyError"
                   /\ At(program_counter - 1) = "b"
                   /\ rstack = <<13>>)

\* C14 witness: the run of : f b 1 ; ^ f has failed inside the call of f.
C14_Witness ==
    /\ program = ScenarioLiteralInBody
    /\ status = "fatal" /\ "f" \in DispatchedBytes

\* The calls that have not returned among the first i dispatches.
Depth(i) ==
    Cardinality({j \in 1..i : dispatched[j].op = "call_function"})
    - Cardinality({j \in 1..i : dispatched[j].op = "return_from_function"})

\* The call that a return dispatched now answers: the last one dispatched
\* at the depth below the present one.
MatchingCall ==
    LET C == {i \in 1..Len(dispatched) :
                 /\ dispatched[i].op = "call_function"
                 /\ Depth(i - 1) = Len(rstack) - 1}
    IN  CHOOSE i \in C : \A j \in C : j <= i

\* C15: the dispatch of a :-defined name pushes the offset after the call
\* site on the call stack and moves the cursor to the offset after the name
\* in the definition; a ; pops the call stack into the cursor, and fails on
\* an empty call stack; nothing else changes the call stack.  So a ; takes
\* the cursor to the offset after the site of the call it answers, with the
\* call stack as deep as before that call.
C15_CallAndReturn ==
    /\ [][/\ Executes("call_function") =>
                 /\ rstack' = Append(rstack, program_counter + 1)
                 /\ program_counter' = LastDef(At(program_counter)).at + 1
                 /\ At(program_counter' - 1) = At(program_counter)
                 /\ UNCHANGED <<stack, memory, stdout>> /\ GoesOn
          /\ (Executes("return_from_function") /\ rstack # <<>>) =>
                 /\ program_counter' = rstack[Len(rstack)]
                 /\ rstack' = SubSeq(rstack, 1, Len(rstack) - 1)
                 /\ program_counter' = dispatched[MatchingCall].at + 1
                 /\ Len(rstack') = Depth(MatchingCall - 1)
                 /\ UNCHANGED <<stack, memory, stdout>> /\ GoesOn
          /\ (Executes("return_from_function") /\ rstack = <<>>) =>
                 /\ status' = "fatal" /\ err' = "IndexError"
                 /\ UNCHANGED <<stack, memory, stdout, rstack>>
          /\ ~(Executes("call_function") \/ Executes("return_from_function"))
                 => rstack' = rstack
         ]_vars
    /\ [](status = "running" => Len(rstack) = Depth(Len(dispatched)))

\* C15 witness: after a call inside a call both have returned, and the
\* cursor is after the site of the outer call with the call stack empty.
C15_Witness ==
    /\ program = ScenarioNested
    /\ Len(dispatched) = 4
    /\ Top(dispatched).op = "return_from_function"
    /\ status = "running" /\ rstack = <<>>
    /\ program_counter = 9

\* C16 as claimed: a decimal literal, also one whose digits run up to the
\* last byte of the text, is parsed to the base-10 value of the longest run
\* of digits at its first digit, with the cursor left after the last digit;
\* a literal position with no digit is a fatal error.
C16_LiteralParsed ==
    [][/\ (Scanning /\ At(program_counter) \in {"b", "#"}) =>
              LET start == advance_past_whitespace(program_counter + 1)
                  end   == read_number(start)
              IN  IF end > start
                  THEN /\ GoesOn
                       /\ program_counter' = end
                       /\ At(program_counter) = "b" =>
                             memory' = Append(memory, int(Text(start, end)))
                       /\ At(program_counter) = "#" =>
                             Len(memory') = Len(memory) + 4
                  ELSE status' = "fatal" /\ memory' = memory
       /\ Executes("push_literal") =>
              LET end == read_number(program_counter)
              IN  /\ GoesOn
                  /\ program_counter' = end
                  /\ stack' = Append(stack, int(Text(program_counter, end)))
      ]_vars

\* Lines 86-97: the iterations of the loop of tbfcompile, and its return.
tbfcompile ==
    \/ tbfcompile_eat_comment
    \/ dataspace_label
    \/ define_function
    \/ literal_byte
    \/ literal_word
    \/ set_start_address
    \/ tbfcompile_nop
    \/ tbfcompile_ignore
    \/ tbfcompile_undefined
    \/ tbfcompile_return

\* The compile pass alone: main calls tbfcompile in its one thread, which
\* always takes its next step (line 161).
CompileSpec == Init /\ [][tbfcompile]_vars /\ WF_vars(tbfcompile)

\* C17: the compile pass terminates, with the cursor at or past the end of
\* the text or with a fatal error; during the compile pass the cursor never
\* decreases, and every iteration of the scanner loop advances it by at least
\* one byte.
C17_CompileTerminates ==
    /\ <>(mainpc # "tbfcompile" \/ status = "fatal")
    /\ [][/\ Scanning => /\ program_counter' > program_counter
                         /\ mainpc' = "tbfcompile"
          /\ (mainpc = "tbfcompile" /\ mainpc' # "tbfcompile") =>
                /\ program_counter >= Len(program)
                /\ program_counter' = program_counter
                /\ GoesOn
         ]_vars
    /\ [](mainpc = "tbfcompile" => program_counter <= Len(program))

\* The compile pass has returned after five iterations or more, having
\* compiled a label, a literal and an entry point.
C17_Witness ==
    /\ mainpc = "main_162"
    /\ status = "running"
    /\ program_counter = Len(program)
    /\ Len(program) >= 5
    /\ defs # <<>>
    /\ memory # <<>>
    /\ start_address # None

\* C18 as claimed: every element of the data space is an integer in 0..255,
\* whatever the literals of 'b' and '#' and the values stored by '!' were;
\* hence every value pushed by '@' is in 0..2^32-1 (four base-256 digits).
C18_BytesOnly ==
    /\ \A i \in 1..Len(memory) :
          /\ Less(memory[i], 256)
          /\ \A k \in 1..Len(memory[i]) : memory[i][k] \in 0..255
    /\ (dispatched # <<>> /\ Top(dispatched).op = "fetch"
        /\ status = "running") => Len(Top(stack)) <= 4

\* C19: in every state of the run pass every element of the data stack is a
\* non-negative integer (a number whose base-256 digits are all in 0..255,
\* a negative one having negative digits): no literal, label, G, +, ~, @ or !
\* puts a negative value on the stack.
C19_StackNonNegative ==
    \A i \in 1..Len(stack) :
       \A k \in 1..Len(stack[i]) : stack[i][k] \in 0..255

\* '~' has just complemented 7: the stack holds 4294967288.
C19_Witness ==
    /\ status = "running"
    /\ dispatched # <<>>
    /\ Top(dispatched).op = "bitwise_not"
    /\ Top(dispatched).stack # <<>>
    /\ Top(Top(dispatched).stack) = <<7>>
    /\ stack # <<>>
    /\ Top(stack) = <<248, 255, 255, 255>>

====
